---- MODULE Spec2Model ----
(***************************************************************************)
(* Long-form transcription service (whisperx/video_segmenter.py and        *)
(* whisperx/api_server.py): the chunk builders of VideoSegmenter and the   *)
(* /transcribe-large pipeline that drives recognition, alignment and       *)
(* diarization over the chunks.                                            *)
(*                                                                         *)
(* Times are whole seconds.  SegSpec explores segment_audio over bounded   *)
(* inputs; JobSpec explores one transcribe_large request step by step and  *)
(* CallbackSpec the same request with a progress callback; SrtSpec the     *)
(* subtitle rendering; SrvSpec concurrent requests on the event loop and   *)
(* their files; TimeSpec one call of create_time_based_chunks.             *)
(***************************************************************************)
EXTENDS Integers, Sequences, FiniteSets, TLC

(***************************************************************************)
(* Bounds of the model.                                                    *)
(***************************************************************************)
MaxDuration == 70        \* longest audio file, seconds
MaxSpeech == 3           \* most speech intervals the detector returns
MaxSilences == 2         \* most silence periods the detector returns
MaxSrtSegments == 2      \* most segments in a rendered transcript
MaxSrtWords == 2         \* most words in a rendered transcript
MaxRequests == 2         \* requests the server receives

(***************************************************************************)
(* Program constants.                                                      *)
(***************************************************************************)
ChunkDuration == 30      \* VideoSegmenter(chunk_duration=30, ...)
OverlapDuration == 10    \* VideoSegmenter(..., overlap_duration=10)
AutoNoneBelow == 30      \* get_optimal_strategy: audio_duration < 30

Strategies == {"auto", "none", "vad", "time", "silence", "bogus"}

Max(a, b) == IF a >= b THEN a ELSE b
Min(a, b) == IF a <= b THEN a ELSE b

(***************************************************************************)
(* AudioSegment(start, end, segment_id); duration is end - start.          *)
(***************************************************************************)
AudioSegment(start, end, segment_id) ==
    [start |-> start, end |-> end, segment_id |-> segment_id]

(***************************************************************************)
(* create_time_based_chunks: the while loop, from position pos.            *)
(***************************************************************************)
RECURSIVE TimeLoop(_, _, _, _, _, _)
TimeLoop(duration, chunk_duration, overlap, current_pos, chunk_id, chunks) ==
    IF current_pos < duration
    THEN TimeLoop(duration, chunk_duration, overlap,
                  current_pos + (chunk_duration - overlap), chunk_id + 1,
                  Append(chunks,
                         AudioSegment(current_pos,
                                      Min(current_pos + chunk_duration, duration),
                                      chunk_id)))
    ELSE chunks

CreateTimeBasedChunks(duration, chunk_duration, overlap) ==
    TimeLoop(duration, chunk_duration, overlap, 0, 0, <<>>)

(***************************************************************************)
(* create_vad_chunks: the Cut & Merge loop over speech_segments[i..].      *)
(* A speech interval is a pair <<start, end>>.                             *)
(***************************************************************************)
RECURSIVE VadLoop(_, _, _, _, _, _, _, _)
VadLoop(speech_segments, i, target_duration, overlap, current_start, current_end, chunk_id, chunks) ==
    IF i > Len(speech_segments)
    THEN \* Add final chunk
         IF current_start < current_end
         THEN Append(chunks,
                     AudioSegment(Max(0, current_start - overlap), current_end,
                                  chunk_id))
         ELSE chunks
    ELSE LET seg_start == speech_segments[i][1]
             seg_end == speech_segments[i][2]
         IN  IF (seg_end - current_start) <= target_duration
             THEN VadLoop(speech_segments, i + 1, target_duration, overlap,
                          current_start, seg_end, chunk_id, chunks)
             ELSE VadLoop(speech_segments, i + 1, target_duration, overlap,
                          seg_start, seg_end, chunk_id + 1,
                          Append(chunks,
                                 AudioSegment(Max(0, current_start - overlap),
                                              current_end + overlap, chunk_id)))

(***************************************************************************)
(* detect_speech_segments: outcome says how the detector went: the VAD     *)
(* model could not be loaded ("load_failed": load_vad_model logs it and    *)
(* leaves vad_model None), loading or running it on the audio raised       *)
(* ("raised"), or it ran ("ok") and found the intervals given.  escaped    *)
(* says whether an exception left the function.                            *)
(***************************************************************************)
DetectionOutcomes == {"load_failed", "raised", "ok"}

\* Variant: no try/except around the detection.
DetectSpeechSegmentsUncaught(outcome, found) ==
    IF outcome = "load_failed" THEN [escaped |-> FALSE, segments |-> <<>>]
    ELSE IF outcome = "raised" THEN [escaped |-> TRUE, segments |-> <<>>]
    ELSE [escaped |-> FALSE, segments |-> found]

DetectSpeechSegments(outcome, found) ==
    IF outcome = "load_failed" THEN [escaped |-> FALSE, segments |-> <<>>]
    ELSE IF outcome = "raised" THEN [escaped |-> FALSE, segments |-> <<>>]
    ELSE [escaped |-> FALSE, segments |-> found]

CreateVadChunks(speech_segments, duration, target_duration, overlap) ==
    IF speech_segments = <<>>
    THEN CreateTimeBasedChunks(duration, target_duration, overlap)
    ELSE VadLoop(speech_segments, 2, target_duration, overlap,
                 speech_segments[1][1], speech_segments[1][2], 0, <<>>)

(***************************************************************************)
(* create_silence_based_chunks.                                            *)
(***************************************************************************)
RECURSIVE SplitLong(_, _, _, _, _)
SplitLong(pos, silence_start, max_chunk_duration, chunk_id, chunks) ==
    IF pos < silence_start
    THEN LET chunk_end == Min(pos + max_chunk_duration, silence_start)
         IN  SplitLong(chunk_end, silence_start, max_chunk_duration, chunk_id + 1,
                       Append(chunks, AudioSegment(pos, chunk_end, chunk_id)))
    ELSE chunks

RECURSIVE SilenceLoop(_, _, _, _, _, _)
SilenceLoop(silences, k, duration, max_chunk_duration, prev_end, chunks) ==
    IF k > Len(silences)
    THEN \* Add final chunk if needed
         IF prev_end < duration
         THEN Append(chunks, AudioSegment(prev_end, duration, Len(chunks)))
         ELSE chunks
    ELSE LET silence_start == silences[k][1]
             silence_end == silences[k][2]
             next ==
                 IF silence_start > prev_end
                 THEN IF (silence_start - prev_end) > max_chunk_duration
                      THEN SplitLong(prev_end, silence_start, max_chunk_duration,
                                     Len(chunks), chunks)
                      ELSE Append(chunks,
                                  AudioSegment(prev_end, silence_start, Len(chunks)))
                 ELSE chunks
         IN  SilenceLoop(silences, k + 1, duration, max_chunk_duration,
                         silence_end, next)

CreateSilenceBasedChunks(silences, duration, max_chunk_duration) ==
    IF silences = <<>>
    THEN CreateTimeBasedChunks(duration, ChunkDuration, OverlapDuration)
    ELSE SilenceLoop(silences, 1, duration, max_chunk_duration, 0, <<>>)

(***************************************************************************)
(* get_optimal_strategy and the dispatch of segment_audio.                 *)
(***************************************************************************)
\* Variant: the threshold test written as <= instead of <.
GetOptimalStrategyInclusive(audio_duration) ==
    IF audio_duration <= AutoNoneBelow THEN "none" ELSE "vad"

GetOptimalStrategy(audio_duration) ==
    IF audio_duration < AutoNoneBelow THEN "none" ELSE "vad"

\* The strategy segment_audio acts on: "auto" is replaced by the selector's choice.
EffectiveStrategy(strategy, duration) ==
    IF strategy = "auto" THEN GetOptimalStrategy(duration) ELSE strategy

\* The builder segment_audio calls for a strategy name.
BuilderFor(strategy, duration) ==
    LET s == EffectiveStrategy(strategy, duration)
    IN  IF s = "none" THEN "none"
        ELSE IF s = "vad" THEN "vad"
        ELSE IF s = "time" THEN "time"
        ELSE IF s = "silence" THEN "silence"
        ELSE "vad"

SegmentAudio(strategy, duration, speech_segments, silences) ==
    LET b == BuilderFor(strategy, duration)
    IN  IF b = "none" THEN <<AudioSegment(0, duration, 0)>>
        ELSE IF b = "vad"
             THEN CreateVadChunks(speech_segments, duration,
                                  ChunkDuration, OverlapDuration)
        ELSE IF b = "time"
             THEN CreateTimeBasedChunks(duration, ChunkDuration, OverlapDuration)
        ELSE CreateSilenceBasedChunks(silences, duration, ChunkDuration * 2)

(***************************************************************************)
(* Transcript segments.  A segment is a record start/end/text; words is    *)
(* empty until alignment fills it, speaker is "none" until diarization     *)
(* labels it.                                                              *)
(***************************************************************************)
MaxSegsPerChunk == 2     \* most segments the engine returns for one chunk
MaxJobSpeech == 2        \* most speech/silence intervals in a job's audio

Languages == {"en", "de"}
Texts == {"a", "b"}

TranscriptSegment(start, end, text) ==
    [start |-> start, end |-> end, text |-> text, words |-> <<>>,
     speaker |-> "none"]

(***************************************************************************)
(* model.transcribe(segment_audio, language=...): the engine either raises *)
(* or returns segments timed from the start of the slice, in time order,   *)
(* and the language (the one passed in, or the one it detected).           *)
(* Segments are 5 s long and start at 0, at 20 or 5 s before the end of    *)
(* the slice.                                                              *)
(***************************************************************************)
LocalStarts(len) == {t \in {0, 20, len - 5} : t >= 0 /\ t + 5 <= len}

\* The elements of a set of times, in increasing order.
RECURSIVE SortedSeq(_)
SortedSeq(S) ==
    IF S = {} THEN <<>>
    ELSE LET m == CHOOSE x \in S : \A y \in S : x <= y
         IN  <<m>> \o SortedSeq(S \ {m})

RecogSegmentLists(len) ==
    UNION {{[k \in 1..Cardinality(S) |->
                TranscriptSegment(SortedSeq(S)[k], SortedSeq(S)[k] + 5,
                                  txt[SortedSeq(S)[k]])] :
              txt \in [S -> Texts]} :
           S \in {T \in SUBSET LocalStarts(len) : Cardinality(T) <= MaxSegsPerChunk}}

RecogOutcomes(len, lang) ==
    {[raised |-> TRUE, segments |-> <<>>, language |-> "absent"]}
    \cup {[raised |-> FALSE, segments |-> q, language |-> l] :
             q \in RecogSegmentLists(len),
             l \in (IF lang = "none" THEN Languages ELSE {lang})}

(***************************************************************************)
(* transcribe_audio_segment(audio_path, segment, model, language).         *)
(* The returned record is the function's dict; escaped says whether an     *)
(* exception left the function instead (the try/except lets none out).     *)
(***************************************************************************)
\* Variant: the offset is added a second time to a result already offset.
OffsetSegmentsTwice(segs, offset) ==
    [k \in 1..Len(segs) |->
        [segs[k] EXCEPT !.start = @ + 2 * offset, !.end = @ + 2 * offset]]

OffsetSegments(segs, offset) ==
    [k \in 1..Len(segs) |->
        [segs[k] EXCEPT !.start = @ + offset, !.end = @ + offset]]

\* Variant: no try/except around the recognition call.
TranscribeAudioSegmentUncaught(segment, outcome, lang) ==
    [escaped |-> outcome.raised,
     segment_id |-> segment.segment_id, start |-> segment.start,
     end |-> segment.end, error |-> FALSE,
     segments |-> OffsetSegments(outcome.segments, segment.start),
     language |-> outcome.language]

TranscribeAudioSegment(segment, outcome, lang) ==
    IF outcome.raised
    THEN [escaped |-> FALSE,
          segment_id |-> segment.segment_id, start |-> segment.start,
          end |-> segment.end, error |-> TRUE, segments |-> <<>>,
          language |-> "absent"]
    ELSE [escaped |-> FALSE,
          segment_id |-> segment.segment_id, start |-> segment.start,
          end |-> segment.end, error |-> FALSE,
          segments |-> OffsetSegments(outcome.segments, segment.start),
          language |-> outcome.language]

\* Variant: all_segments is assigned the chunk's segments instead of extended.
ExtendReplacing(list, items) == items

\* all_segments.extend(result.get("segments", []))
Extend(list, items) == list \o items

\* Variant: the language chunk 0 reported is ignored.
GetLanguageDefault(result, default) == default

\* dict.get("language", default) on a result of transcribe_audio_segment.
GetLanguage(result, default) ==
    IF result.language = "absent" THEN default ELSE result.language

\* segment_progress = 20 + int((i / len(segments)) * 60)
\* Variant: the chunk loop spreads its notifications over 20..120.
SegmentProgressFullRange(idx, n) == 20 + ((idx * 100) \div n)

SegmentProgress(idx, n) == 20 + ((idx * 60) \div n)

(***************************************************************************)
(* send_progress_callback(callback_url, job_id, progress, stage, ...).     *)
(* callback_url and job_id say whether the caller gave the value; outcome  *)
(* is what requests.post did: answered 200 ("ok"), answered another status *)
(* ("http_error"), timed out, could not connect, or raised anything else.  *)
(* posted says whether a request was made, delivered whether it was        *)
(* answered with 200, escaped whether an exception left the function.      *)
(***************************************************************************)
CallbackOutcomes == {"ok", "http_error", "timeout", "connection_error", "error"}

\* What requests.post can do for this request: nothing when none is made.
DeliveryOutcomes(callback_url, job_id) ==
    IF callback_url /\ job_id THEN CallbackOutcomes ELSE {"none"}

\* Variant: no try/except around requests.post.
SendProgressCallbackUncaught(callback_url, job_id, outcome) ==
    IF ~callback_url \/ ~job_id
    THEN [posted |-> FALSE, delivered |-> FALSE, escaped |-> FALSE]
    ELSE [posted |-> TRUE, delivered |-> outcome = "ok",
          escaped |-> outcome \in {"timeout", "connection_error", "error"}]

SendProgressCallback(callback_url, job_id, outcome) ==
    IF ~callback_url \/ ~job_id
    THEN [posted |-> FALSE, delivered |-> FALSE, escaped |-> FALSE]
    ELSE [posted |-> TRUE, delivered |-> outcome = "ok", escaped |-> FALSE]

(***************************************************************************)
(* whisperx.align: fills the words of every segment; and                   *)
(* whisperx.assign_word_speakers: labels every segment with a speaker.     *)
(***************************************************************************)
AlignSegments(segs) ==
    [k \in 1..Len(segs) |->
        [segs[k] EXCEPT !.words = <<[word |-> segs[k].text,
                                     start |-> segs[k].start,
                                     end |-> segs[k].end]>>]]

AssignWordSpeakers(segs) ==
    [k \in 1..Len(segs) |-> [segs[k] EXCEPT !.speaker = "SPEAKER_00"]]

(***************************************************************************)
(* The alignment block (lines 847-866) and the diarization block (lines    *)
(* 869-897) of transcribe_large as functions of the engine's outcome:      *)
(* "ok", "load_failed" (creating the model raised) or "run_failed" (the    *)
(* model raised when run).  escaped says whether the exception left the    *)
(* block; segments is all_segments after the block.                        *)
(***************************************************************************)
StageOutcomes == {"ok", "load_failed", "run_failed"}

\* Variant: the except branch of the alignment block re-raises.
AlignStageUncaught(segs, outcome) ==
    [escaped |-> outcome # "ok",
     segments |-> IF outcome = "ok" THEN AlignSegments(segs) ELSE segs]

AlignStage(segs, outcome) ==
    [escaped |-> FALSE,
     segments |-> IF outcome = "ok" THEN AlignSegments(segs) ELSE segs]

\* How the diarization block ends for a request.
DiarStatus(enabled, token, outcome) ==
    IF ~enabled THEN "disabled"
    ELSE IF ~token THEN "no_token"
    ELSE IF outcome = "ok" THEN "ok"
    ELSE "failed"

DiarizeStage(segs, enabled, token, outcome) ==
    [escaped |-> FALSE,
     segments |-> IF DiarStatus(enabled, token, outcome) = "ok"
                  THEN AssignWordSpeakers(segs)
                  ELSE segs]

(***************************************************************************)
(* The response dict of transcribe_large.  filename, processing_time and   *)
(* realtime_factor (wall-clock values) and the rendered srt/txt strings    *)
(* are left out.                                                           *)
(***************************************************************************)
BuildResponse(strategy, dur, lang, chunks, segs) ==
    [status |-> 200,
     duration |-> dur,
     language |-> lang,
     num_segments |-> Len(segs),
     num_chunks |-> Len(chunks),
     chunking_strategy |-> strategy,
     segments |-> segs]

\* The metadata of a response: everything but the transcript itself.
Metadata(resp) ==
    [duration |-> resp.duration, language |-> resp.language,
     num_segments |-> resp.num_segments, num_chunks |-> resp.num_chunks,
     chunking_strategy |-> resp.chunking_strategy]

(***************************************************************************)
(* Subtitle rendering (api_server.py, format_timestamp_srt and the two SRT *)
(* generators).  A text is a sequence of one-character strings.  A time is *)
(* a whole number of milliseconds t and stands for the Python float        *)
(* nearest to t/1000, which is how WhisperX reports its rounded            *)
(* timestamps; NoTime stands for a missing (None) start or end.            *)
(***************************************************************************)
NL == "\n"

NoTime == -1

DigitChars == <<"0", "1", "2", "3", "4", "5", "6", "7", "8", "9">>

RECURSIVE Decimal(_)
Decimal(n) ==
    IF n < 10 THEN <<DigitChars[n + 1]>>
    ELSE Decimal(n \div 10) \o <<DigitChars[(n % 10) + 1]>>

\* f"{n:0<width>d}": at least width digits, zero-padded on the left.
ZeroPad(n, width) ==
    LET d == Decimal(n)
    IN  IF Len(d) >= width THEN d
        ELSE [k \in 1..(width - Len(d)) |-> "0"] \o d

RECURSIVE Pow2(_)
Pow2(k) == IF k <= 0 THEN 1 ELSE 2 * Pow2(k - 1)

RECURSIVE Pow2Mod1000(_)
Pow2Mod1000(k) == IF k <= 0 THEN 1 ELSE (2 * Pow2Mod1000(k - 1)) % 1000

RECURSIVE FloorLog2(_)
FloorLog2(n) == IF n < 2 THEN 0 ELSE 1 + FloorLog2(n \div 2)

RECURSIVE DoublingsTo1000(_)
DoublingsTo1000(ms) == IF ms >= 1000 THEN 0 ELSE 1 + DoublingsTo1000(2 * ms)

\* The binary exponent e of the float t/1000 (t >= 1): 2^e <= t/1000 < 2^(e+1).
BinaryExponent(ms) ==
    IF ms >= 1000 THEN FloorLog2(ms \div 1000) ELSE 0 - DoublingsTo1000(ms)

\* The sign and size of the float's representation error, in units of
\* 2^(e-52)/1000: the float nearest t/1000 has the 53-bit significand
\* round(t * 2^(52-e) / 1000), and r is what that division leaves over.
RepresentationError(ms) ==
    LET r == (Pow2Mod1000(52 - BinaryExponent(ms)) * (ms % 1000)) % 1000
    IN  IF r < 500 THEN [below |-> r > 0, size |-> r]
        ELSE [below |-> FALSE, size |-> 1000 - r]

\* int((seconds % 1) * 1000) in IEEE-754 double arithmetic.  seconds % 1 is
\* exact; the product is rounded to the nearest double and then truncated.
\* When the float lies below t/1000 and the product does not round back up
\* to the whole millisecond, the truncation loses one millisecond.
FloatMillis(ms) ==
    LET msf == ms % 1000
        err == RepresentationError(ms)
        e   == BinaryExponent(ms)
        b   == FloorLog2(msf)
        sh  == IF msf = Pow2(b) THEN b - 1 - e ELSE b - e
        lost == /\ err.below
                /\ \/ sh <= 0
                   \/ 2 * err.size > Pow2(sh)
    IN  IF msf = 0 THEN 0
        ELSE IF lost THEN msf - 1 ELSE msf

FormatTimestampSrt(seconds) ==
    LET hours   == seconds \div 3600000
        minutes == (seconds % 3600000) \div 60000
        secs    == (seconds % 60000) \div 1000
        millis  == FloatMillis(seconds)
    IN  ZeroPad(hours, 2) \o <<":">> \o ZeroPad(minutes, 2) \o <<":">>
        \o ZeroPad(secs, 2) \o <<",">> \o ZeroPad(millis, 3)

RECURSIVE StripLeft(_)
StripLeft(s) ==
    IF s = <<>> THEN s
    ELSE IF Head(s) = " " THEN StripLeft(Tail(s)) ELSE s

RECURSIVE StripRight(_)
StripRight(s) ==
    IF s = <<>> THEN s
    ELSE IF s[Len(s)] = " " THEN StripRight(SubSeq(s, 1, Len(s) - 1)) ELSE s

Strip(s) == StripRight(StripLeft(s))

Arrow == <<" ", "-", "-", ">", " ">>

\* The four lines one cue adds to srt_lines.
CueLines(counter, start, end, text) ==
    << Decimal(counter),
       FormatTimestampSrt(start) \o Arrow \o FormatTimestampSrt(end),
       text,
       <<>> >>

\* "\n".join(srt_lines)
RECURSIVE JoinLines(_)
JoinLines(srt_lines) ==
    IF srt_lines = <<>> THEN <<>>
    ELSE IF Len(srt_lines) = 1 THEN srt_lines[1]
    ELSE srt_lines[1] \o <<NL>> \o JoinLines(Tail(srt_lines))

\* A variant of the inner loop that numbers the words, not the cues.
RECURSIVE WordLoopCountingSkipped(_, _, _, _)
WordLoopCountingSkipped(words, j, counter, srt_lines) ==
    IF j > Len(words) THEN [counter |-> counter, srt_lines |-> srt_lines]
    ELSE LET word_obj  == words[j]
             word_text == Strip(word_obj.word)
         IN  IF word_text = <<>> \/ word_obj.start = NoTime
                \/ word_obj.end = NoTime
             THEN WordLoopCountingSkipped(words, j + 1, counter + 1, srt_lines)
             ELSE WordLoopCountingSkipped(words, j + 1, counter + 1,
                      srt_lines \o CueLines(counter, word_obj.start,
                                            word_obj.end, word_text))

\* for word_obj in segment["words"]: ... (one segment of the word-level SRT)
RECURSIVE WordLoop(_, _, _, _)
WordLoop(words, j, counter, srt_lines) ==
    IF j > Len(words) THEN [counter |-> counter, srt_lines |-> srt_lines]
    ELSE LET word_obj  == words[j]
             word_text == Strip(word_obj.word)
         IN  IF word_text = <<>> \/ word_obj.start = NoTime
                \/ word_obj.end = NoTime
             THEN WordLoop(words, j + 1, counter, srt_lines)
             ELSE WordLoop(words, j + 1, counter + 1,
                      srt_lines \o CueLines(counter, word_obj.start,
                                            word_obj.end, word_text))

\* for segment in segments: ... (the outer loop of the word-level SRT)
RECURSIVE WordSrtLoop(_, _, _, _)
WordSrtLoop(segs, s, counter, srt_lines) ==
    IF s > Len(segs) THEN srt_lines
    ELSE LET r == WordLoop(segs[s].words, 1, counter, srt_lines)
         IN  WordSrtLoop(segs, s + 1, r.counter, r.srt_lines)

GenerateSrtFromSegments(segs) == JoinLines(WordSrtLoop(segs, 1, 1, <<>>))

\* for segment in segments: ... (the loop of the segment-level SRT)
RECURSIVE SegmentSrtLoop(_, _, _, _)
SegmentSrtLoop(segs, s, counter, srt_lines) ==
    IF s > Len(segs) THEN srt_lines
    ELSE LET segment == segs[s]
             text    == Strip(segment.text)
         IN  IF text = <<>> \/ segment.start = NoTime \/ segment.end = NoTime
             THEN SegmentSrtLoop(segs, s + 1, counter, srt_lines)
             ELSE SegmentSrtLoop(segs, s + 1, counter + 1,
                      srt_lines \o CueLines(counter, segment.start,
                                            segment.end, text))

GenerateSegmentSrt(segs) == JoinLines(SegmentSrtLoop(segs, 1, 1, <<>>))

(***************************************************************************)
(* The server: requests to /transcribe, /transcribe-large and              *)
(* /process-video handled by coroutines on one event loop.  A path is a    *)
(* record: the directory, the time.time() stamps in its name, and the stem *)
(* and suffix of the uploaded file name.                                   *)
(***************************************************************************)
Requests == 1..MaxRequests

Endpoints == {"transcribe", "large", "video"}

Filenames == {[stem |-> "a", suffix |-> ".mp4"], [stem |-> "a", suffix |-> ".wav"]}

VideoSuffixes == {".mp4", ".avi", ".mkv", ".mov", ".webm"}

NoPath == [dir |-> "none", stamps |-> <<>>, stem |-> "", suffix |-> ""]

\* UPLOAD_DIR / file.filename
UploadPath(name) ==
    [dir |-> "uploads", stamps |-> <<>>, stem |-> name.stem, suffix |-> name.suffix]

\* TEMP_DIR / f"{time.time()}_{file.filename}"
TempPath(stamp, name) ==
    [dir |-> "temp", stamps |-> <<stamp>>, stem |-> name.stem, suffix |-> name.suffix]

\* TEMP_DIR / f"{temp_file.stem}.wav"
WavPath(path) == [path EXCEPT !.suffix = ".wav"]

\* TEMP_DIR / f"{time.time()}_{temp_audio.name}", the upload of the nested
\* transcribe_large call of process_video.
NestedPath(stamp, path) == [path EXCEPT !.stamps = <<stamp>> \o @]

\* What the files hold: every existing path is mapped to the request whose
\* data was written to it last, Empty while nothing was written.
Empty == 0

NoFiles == [p \in {} |-> Empty]

\* open(path, "wb"): the file is created, or truncated when it exists.
OpenForWriting(store, path) ==
    [p \in DOMAIN store \cup {path} |-> IF p = path THEN Empty ELSE store[p]]

\* Data of a request is written to the file at path (created if missing).
WriteFile(store, path, owner) ==
    [p \in DOMAIN store \cup {path} |-> IF p = path THEN owner ELSE store[p]]

\* The store after the finally blocks: only the paths that still exist.
Remaining(store, existing) == [p \in existing |-> store[p]]

\* Where a coroutine can hand the event loop to another request: only at
\* "await file.read()".  The engine calls are plain blocking calls.
SuspendableAnywhere(position) == position \notin {"idle", "returned", "raised"}

Suspendable(position) == position = "reading"

\* The finally block of /transcribe removes the upload only.
UnlinkUploadOnly(endpoint, existing, upload, audio, nested) ==
    existing \ {upload}

\* The finally blocks: each file still present is unlinked.  The nested
\* upload of /process-video is removed by the nested call's own finally.
Unlink(endpoint, existing, upload, audio, nested) ==
    IF endpoint = "transcribe" THEN existing \ {upload}
    ELSE existing \ {upload, audio, nested}

(***************************************************************************)
(* State.                                                                  *)
(*   pc                 position of the request in its handler             *)
(*   chunking_strategy  the strategy name the caller passed                *)
(*   duration           probed duration of the audio (get_video_info)      *)
(*   speech_segments    what detect_speech_segments returned (if called)   *)
(*   silences           what detect_silence returned (if called)           *)
(*   builder            the builder segment_audio dispatched to            *)
(*   segments           the chunk list segment_audio returned              *)
(*   detection          how detect_speech_segments went (if called)        *)
(***************************************************************************)
VARIABLES pc, chunking_strategy, duration, speech_segments, silences, builder,
          segments, detection

(***************************************************************************)
(* State of one transcribe_large request.                                  *)
(*   language           the language the caller pinned ("none": not pinned)*)
(*   enable_diarization, hf_token   as read at the diarization step        *)
(*   detected_language  the language used for the remaining chunks         *)
(*   i                  index (from 0) of the next chunk to transcribe     *)
(*   recog              what model.transcribe did on each chunk so far     *)
(*   results            what transcribe_audio_segment returned per chunk   *)
(*   all_segments       the transcript segments collected so far           *)
(*   resident           the models currently held in memory                *)
(*   progress           the progress notifications issued so far           *)
(*   align_status, diar_status   how the two optional stages ended         *)
(*   response           the JSON body returned on success                  *)
(*   error_at           the step whose exception ended the request (500)   *)
(***************************************************************************)
VARIABLES language, enable_diarization, hf_token, detected_language, i, recog,
          results, all_segments, resident, progress, align_status, diar_status,
          response, error_at

(***************************************************************************)
(* More state of one transcribe_large request.                             *)
(*   callback_url, job_id  whether the caller gave the two callback values *)
(*   posts              number of progress requests posted so far          *)
(*   undelivered        some posted progress request was not answered 200  *)
(*   calls              the recognition calls made so far: chunk index and *)
(*                      the language argument ("none": language=None)      *)
(*   peak_resident      the largest number of models held at the same time *)
(***************************************************************************)
VARIABLES callback_url, job_id, posts, undelivered, calls, peak_resident

segVars == <<chunking_strategy, duration, speech_segments, silences, builder,
             segments, detection>>

jobVars == <<language, enable_diarization, hf_token, detected_language, i, recog,
             results, all_segments, resident, progress, align_status,
             diar_status, response, error_at, callback_url, job_id, posts,
             undelivered, calls, peak_resident>>

(***************************************************************************)
(* State of the subtitle rendering.                                        *)
(*   transcript           the segments handed to the two SRT generators    *)
(*   srt_content          the word-level subtitle file                     *)
(*   segment_srt_content  the segment-level subtitle file                  *)
(***************************************************************************)
VARIABLES transcript, srt_content, segment_srt_content

srtVars == <<transcript, srt_content, segment_srt_content>>

(***************************************************************************)
(* State of the server.                                                    *)
(*   endpoint   the endpoint each request was sent to ("none": not yet)    *)
(*   filename   the name of each request's uploaded file                   *)
(*   rpc        position of each request's coroutine in its handler        *)
(*   held       the models each request holds                              *)
(*   temp_file, audio_file, nested_file   the paths the handler assigned   *)
(*              (temp_file/temp_video, audio_file/temp_audio, and the      *)
(*              temp_file of the nested transcribe_large call)             *)
(*   created    every path the request has written to                      *)
(*   status     HTTP status of the finished request (0: not finished)      *)
(*   files      the files that exist in UPLOAD_DIR and TEMP_DIR            *)
(*   running    the request whose coroutine the event loop is running      *)
(*              (0: the loop is idle)                                      *)
(*   now        the clock read by time.time()                              *)
(*   content    what each existing file holds (see WriteFile)              *)
(*   linked     whether the file object f the request opened is still the  *)
(*              file at its path (it is not once the path was unlinked)    *)
(***************************************************************************)
VARIABLES endpoint, filename, rpc, held, temp_file, audio_file, nested_file,
          created, status, files, running, now, content, linked

fsVars == <<content, linked>>

srvVars == <<endpoint, filename, rpc, held, temp_file, audio_file, nested_file,
             created, status, files, running, now, content, linked>>

(***************************************************************************)
(* State of one call of create_time_based_chunks with free parameters.     *)
(*   chunk_duration, overlap   the two parameters of the call              *)
(*   current_pos               the loop position                           *)
(*   chunk_id                  the id the next chunk gets                  *)
(* The probed duration is in duration and the chunk list in segments.      *)
(***************************************************************************)
VARIABLES chunk_duration, overlap, current_pos, chunk_id

timeVars == <<chunk_duration, overlap, current_pos, chunk_id>>

vars == <<pc, segVars, jobVars, srtVars, srvVars, timeVars>>

(***************************************************************************)
(* Bounded inputs: durations on a 5-second grid (plus 29 and 31) and       *)
(* interval lists on a 5-second grid (plus the points 2 s after the start  *)
(* and 2 s before the end of the file), every list sorted, disjoint and    *)
(* inside the file, as the detectors report them.                          *)
(***************************************************************************)
Durations == {d \in 0..MaxDuration : d % 5 = 0 \/ d \in {29, 31}}

TimePoints(d) == {t \in 0..d : t % 5 = 0 \/ t = 2 \/ t = d - 2}

PairUp(q) == [k \in 1..(Len(q) \div 2) |-> <<q[2 * k - 1], q[2 * k]>>]

IntervalLists(points, maxn) ==
    {PairUp(SortedSeq(S)) :
        S \in {T \in SUBSET points : Cardinality(T) % 2 = 0
                                     /\ Cardinality(T) <= 2 * maxn}}

SpeechInputs(d) == IntervalLists(TimePoints(d), MaxSpeech)
SilenceInputs(d) == IntervalLists(TimePoints(d), MaxSilences)

(***************************************************************************)
(* SegSpec: one call of segment_audio(audio_path, strategy).  The action   *)
(* taken is the branch of the dispatch; the detector a builder calls       *)
(* returns any bounded interval list, a detector that is not called        *)
(* leaves its list empty.                                                  *)
(***************************************************************************)
\* The request-local variables before the handler has assigned them.
JobUnset ==
    /\ language = "none"
    /\ enable_diarization = FALSE
    /\ hf_token = FALSE
    /\ detected_language = "none"
    /\ i = 0
    /\ recog = <<>>
    /\ results = <<>>
    /\ all_segments = <<>>
    /\ resident = {}
    /\ progress = <<>>
    /\ align_status = "unset"
    /\ diar_status = "unset"
    /\ response = [status |-> 0]
    /\ error_at = "none"
    /\ posts = 0
    /\ undelivered = FALSE
    /\ calls = <<>>
    /\ peak_resident = 0

\* A request that names no progress callback.
NoCallback ==
    /\ callback_url = FALSE
    /\ job_id = FALSE

\* The bookkeeping of one call of send_progress_callback.
Notify(sent) ==
    /\ posts' = posts + (IF sent.posted THEN 1 ELSE 0)
    /\ undelivered' = (undelivered \/ (sent.posted /\ ~sent.delivered))

\* The segmentation variables of a request that has not segmented anything.
SegUnset ==
    /\ chunking_strategy = "none"
    /\ duration = 0
    /\ speech_segments = <<>>
    /\ silences = <<>>
    /\ builder = "unset"
    /\ segments = <<>>
    /\ detection = "unset"

\* The subtitle variables before anything was rendered.
SrtUnset ==
    /\ transcript = <<>>
    /\ srt_content = <<>>
    /\ segment_srt_content = <<>>

\* The variables of create_time_based_chunks outside a call of it.
TimeUnset ==
    /\ chunk_duration = ChunkDuration
    /\ overlap = OverlapDuration
    /\ current_pos = 0
    /\ chunk_id = 0

\* The server variables of a model that serves no requests.
SrvUnset ==
    /\ endpoint = [r \in Requests |-> "none"]
    /\ filename = [r \in Requests |-> [stem |-> "", suffix |-> ""]]
    /\ rpc = [r \in Requests |-> "idle"]
    /\ held = [r \in Requests |-> {}]
    /\ temp_file = [r \in Requests |-> NoPath]
    /\ audio_file = [r \in Requests |-> NoPath]
    /\ nested_file = [r \in Requests |-> NoPath]
    /\ created = [r \in Requests |-> {}]
    /\ status = [r \in Requests |-> 0]
    /\ files = {}
    /\ running = 0
    /\ now = 1
    /\ content = NoFiles
    /\ linked = [r \in Requests |-> FALSE]

SegInit ==
    /\ pc = "start"
    /\ chunking_strategy \in Strategies
    /\ duration \in Durations
    /\ speech_segments = <<>>
    /\ silences = <<>>
    /\ builder = "unset"
    /\ segments = <<>>
    /\ detection = "unset"
    /\ JobUnset
    /\ NoCallback
    /\ SrtUnset
    /\ SrvUnset
    /\ TimeUnset

SegmentNone ==
    /\ pc = "start"
    /\ BuilderFor(chunking_strategy, duration) = "none"
    /\ builder' = "none"
    /\ segments' = SegmentAudio(chunking_strategy, duration, <<>>, <<>>)
    /\ pc' = "done"
    /\ UNCHANGED <<chunking_strategy, duration, speech_segments, silences, detection, jobVars, srtVars, srvVars, timeVars>>

SegmentVad ==
    /\ pc = "start"
    /\ BuilderFor(chunking_strategy, duration) = "vad"
    /\ builder' = "vad"
    /\ \E outcome \in DetectionOutcomes :
       \E found \in (IF outcome = "ok" THEN SpeechInputs(duration) ELSE {<<>>}) :
          LET det == DetectSpeechSegments(outcome, found)
          IN  /\ detection' = outcome
              /\ speech_segments' = det.segments
              /\ IF det.escaped
                 THEN /\ pc' = "raised"
                      /\ UNCHANGED segments
                 ELSE /\ pc' = "done"
                      /\ segments' = SegmentAudio(chunking_strategy, duration,
                                                  det.segments, <<>>)
    /\ UNCHANGED <<chunking_strategy, duration, silences, jobVars, srtVars, srvVars, timeVars>>

SegmentTime ==
    /\ pc = "start"
    /\ BuilderFor(chunking_strategy, duration) = "time"
    /\ builder' = "time"
    /\ segments' = SegmentAudio(chunking_strategy, duration, <<>>, <<>>)
    /\ pc' = "done"
    /\ UNCHANGED <<chunking_strategy, duration, speech_segments, silences, detection, jobVars, srtVars, srvVars, timeVars>>

SegmentSilence ==
    /\ pc = "start"
    /\ BuilderFor(chunking_strategy, duration) = "silence"
    /\ builder' = "silence"
    /\ \E si \in SilenceInputs(duration) :
          /\ silences' = si
          /\ segments' = SegmentAudio(chunking_strategy, duration, <<>>, si)
    /\ pc' = "done"
    /\ UNCHANGED <<chunking_strategy, duration, speech_segments, detection, jobVars, srtVars, srvVars, timeVars>>

SegNext == SegmentNone \/ SegmentVad \/ SegmentTime \/ SegmentSilence

SegSpec == SegInit /\ [][SegNext]_vars

(***************************************************************************)
(* JobSpec: one POST /transcribe-large request, step by step.  The audio   *)
(* is 0, 20 or 45 s long; detected speech and silence lie on a 15-second   *)
(* grid.  Every call of an external engine may succeed or raise.           *)
(***************************************************************************)
JobDurations == {0, 20, 45}

JobTimePoints(d) == {t \in 0..d : t % 15 = 0}

JobSpeechInputs(d) == IntervalLists(JobTimePoints(d), MaxJobSpeech)
JobSilenceInputs(d) == IntervalLists(JobTimePoints(d), MaxJobSpeech)

JobInit ==
    /\ pc = "start"
    /\ chunking_strategy \in Strategies
    /\ duration \in JobDurations
    /\ speech_segments = <<>>
    /\ silences = <<>>
    /\ builder = "unset"
    /\ segments = <<>>
    /\ detection = "unset"
    /\ JobUnset
    /\ NoCallback
    /\ SrtUnset
    /\ SrvUnset
    /\ TimeUnset

\* An exception outside the inner try blocks: HTTP 500 (lines 927-929).
Fail(step) ==
    /\ pc' = "failed"
    /\ error_at' = step
    /\ response' = [status |-> 500]
    /\ resident' = {}

\* Lines 742-771: save the upload, extract the audio, probe it, segment it.
JobSegmentAudio ==
    /\ pc = "start"
    /\ LET b == BuilderFor(chunking_strategy, duration)
       IN  \E outcome \in (IF b = "vad" THEN DetectionOutcomes ELSE {"unset"}) :
           \E found \in (IF outcome = "ok" THEN JobSpeechInputs(duration) ELSE {<<>>}),
              si \in (IF b = "silence" THEN JobSilenceInputs(duration) ELSE {<<>>}) :
              LET det == IF b = "vad" THEN DetectSpeechSegments(outcome, found)
                         ELSE [escaped |-> FALSE, segments |-> <<>>]
              IN  /\ builder' = b
                  /\ detection' = outcome
                  /\ speech_segments' = det.segments
                  /\ silences' = si
                  /\ IF det.escaped
                     THEN /\ Fail("segment_audio")
                          /\ UNCHANGED <<segments, language, enable_diarization,
                                         hf_token, detected_language, i, recog,
                                         results, all_segments, progress,
                                         align_status, diar_status, callback_url,
                                         job_id, posts, undelivered, calls,
                                         peak_resident>>
                     ELSE /\ segments' = SegmentAudio(chunking_strategy, duration,
                                                      det.segments, si)
                          /\ pc' = "load"
                          /\ UNCHANGED jobVars
    /\ UNCHANGED <<chunking_strategy, duration, srtVars, srvVars, timeVars>>

\* Lines 752-756: extract_audio_optimized raises.
JobExtractFails ==
    /\ pc = "start"
    /\ Fail("extract")
    /\ UNCHANGED <<srtVars, srvVars, timeVars, segVars, language, enable_diarization, hf_token,
                   detected_language, i, recog, results, all_segments, progress,
                   align_status, diar_status, callback_url, job_id, posts,
                   undelivered, calls, peak_resident>>

\* Lines 773-786: load the Whisper model once; the caller pins a language or not.
JobLoadModel ==
    /\ pc = "load"
    /\ \E lang \in {"none", "de"} :
          /\ language' = lang
          /\ detected_language' = lang
    /\ resident' = resident \cup {"whisper"}
    /\ peak_resident' = Max(peak_resident, Cardinality(resident \cup {"whisper"}))
    /\ all_segments' = <<>>
    /\ pc' = "detect"
    /\ UNCHANGED <<srtVars, srvVars, timeVars, segVars, enable_diarization, hf_token, i, recog, results,
                   progress, align_status, diar_status, response, error_at,
                   callback_url, job_id, posts, undelivered, calls>>

\* Line 776: whisperx.load_model raises.
JobLoadModelFails ==
    /\ pc = "load"
    /\ Fail("load_model")
    /\ UNCHANGED <<srtVars, srvVars, timeVars, segVars, language, enable_diarization, hf_token,
                   detected_language, i, recog, results, all_segments, progress,
                   align_status, diar_status, callback_url, job_id, posts,
                   undelivered, calls, peak_resident>>

\* Lines 788-796: no language pinned: chunk 0 is transcribed with language=None.
JobDetectLanguage ==
    /\ pc = "detect"
    /\ detected_language = "none" /\ Len(segments) > 0
    /\ calls' = Append(calls, [index |-> 0, language |-> "none"])
    /\ \E out \in RecogOutcomes(segments[1].end - segments[1].start, "none") :
          LET first_result == TranscribeAudioSegment(segments[1], out, "none")
          IN  /\ recog' = Append(recog, out)
              /\ IF first_result.escaped
                 THEN /\ Fail("recognition")
                      /\ UNCHANGED <<detected_language, all_segments, results, i>>
                 ELSE /\ detected_language' = GetLanguage(first_result, "en")
                      /\ all_segments' = Extend(all_segments, first_result.segments)
                      /\ results' = Append(results, first_result)
                      /\ i' = 1
                      /\ pc' = "loop"
                      /\ UNCHANGED <<resident, response, error_at>>
    /\ UNCHANGED <<srtVars, srvVars, timeVars, segVars, language, enable_diarization, hf_token, progress,
                   align_status, diar_status, callback_url, job_id, posts,
                   undelivered, peak_resident>>

\* Lines 797-798: language pinned, or no chunks: start_idx = 0.
JobSkipDetect ==
    /\ pc = "detect"
    /\ ~(detected_language = "none" /\ Len(segments) > 0)
    /\ i' = 0
    /\ pc' = "loop"
    /\ UNCHANGED <<srtVars, srvVars, timeVars, segVars, language, enable_diarization, hf_token,
                   detected_language, recog, results, all_segments, resident,
                   progress, align_status, diar_status, response, error_at,
                   callback_url, job_id, posts, undelivered, calls,
                   peak_resident>>

\* Lines 801-828: one iteration of the loop over the remaining chunks.
JobTranscribeChunk ==
    /\ pc = "loop"
    /\ i < Len(segments)
    /\ LET seg == segments[i + 1]
       IN  /\ progress' = Append(progress,
                                 [progress |-> SegmentProgress(i, Len(segments)),
                                  stage |-> "transcription"])
           /\ \E cb \in DeliveryOutcomes(callback_url, job_id),
                 out \in RecogOutcomes(seg.end - seg.start, detected_language) :
                 LET sent   == SendProgressCallback(callback_url, job_id, cb)
                     result == TranscribeAudioSegment(seg, out, detected_language)
                 IN  /\ Notify(sent)
                     /\ IF sent.escaped
                        THEN /\ Fail("callback")
                             /\ UNCHANGED <<recog, calls, all_segments, results, i>>
                        ELSE /\ recog' = Append(recog, out)
                             /\ calls' = Append(calls,
                                                [index |-> i,
                                                 language |-> detected_language])
                             /\ IF result.escaped
                                THEN /\ Fail("recognition")
                                     /\ UNCHANGED <<all_segments, results, i>>
                                ELSE /\ all_segments' = Extend(all_segments,
                                                               result.segments)
                                     /\ results' = Append(results, result)
                                     /\ i' = i + 1
                                     /\ UNCHANGED <<pc, resident, response,
                                                    error_at>>
    /\ UNCHANGED <<srtVars, srvVars, timeVars, segVars, language, enable_diarization, hf_token,
                   detected_language, align_status, diar_status, callback_url,
                   job_id, peak_resident>>

\* Lines 830-845: free the Whisper model, announce alignment, load the audio.
JobReleaseModel ==
    /\ pc = "loop"
    /\ i >= Len(segments)
    /\ progress' = Append(progress, [progress |-> 80, stage |-> "alignment"])
    /\ \E cb \in DeliveryOutcomes(callback_url, job_id) :
          LET sent == SendProgressCallback(callback_url, job_id, cb)
          IN  /\ Notify(sent)
              /\ IF sent.escaped
                 THEN Fail("callback")
                 ELSE /\ resident' = resident \ {"whisper"}
                      /\ pc' = "align"
                      /\ UNCHANGED <<response, error_at>>
    /\ UNCHANGED <<srtVars, srvVars, timeVars, segVars, language, enable_diarization, hf_token,
                   detected_language, i, recog, results, all_segments,
                   align_status, diar_status, callback_url, job_id, calls,
                   peak_resident>>

\* Line 845: whisperx.load_audio raises, outside every inner try block.
JobLoadAudioFails ==
    /\ pc = "loop"
    /\ i >= Len(segments)
    /\ progress' = Append(progress, [progress |-> 80, stage |-> "alignment"])
    /\ \E cb \in DeliveryOutcomes(callback_url, job_id) :
          LET sent == SendProgressCallback(callback_url, job_id, cb)
          IN  /\ Notify(sent)
              /\ IF sent.escaped THEN Fail("callback") ELSE Fail("load_audio")
    /\ UNCHANGED <<srtVars, srvVars, timeVars, segVars, language, enable_diarization, hf_token,
                   detected_language, i, recog, results, all_segments,
                   align_status, diar_status, callback_url, job_id, calls,
                   peak_resident>>

\* Lines 847-866: load the alignment model and align; a failure is logged.
JobAlign ==
    /\ pc = "align"
    /\ \E outcome \in StageOutcomes :
          LET r == AlignStage(all_segments, outcome)
          IN  /\ peak_resident' =
                     IF outcome = "load_failed" THEN peak_resident
                     ELSE Max(peak_resident, Cardinality(resident \cup {"align"}))
              /\ IF r.escaped
                 THEN /\ Fail("align")
                      /\ UNCHANGED <<all_segments, align_status>>
                 ELSE /\ all_segments' = r.segments
                      /\ align_status' = IF outcome = "ok" THEN "ok" ELSE "failed"
                      /\ resident' = IF outcome = "run_failed"
                                     THEN resident \cup {"align"}
                                     ELSE resident
                      /\ pc' = "diarize"
                      /\ UNCHANGED <<response, error_at>>
    /\ UNCHANGED <<srtVars, srvVars, timeVars, segVars, language, enable_diarization, hf_token,
                   detected_language, i, recog, results, progress, diar_status,
                   callback_url, job_id, posts, undelivered, calls>>

\* Lines 868-897: optional diarization; hf_token is the form value or HF_TOKEN.
JobDiarize ==
    /\ pc = "diarize"
    /\ \E en \in BOOLEAN, tok \in BOOLEAN, outcome \in StageOutcomes :
          LET r == DiarizeStage(all_segments, en, tok, outcome)
              st == DiarStatus(en, tok, outcome)
          IN  /\ (st \in {"disabled", "no_token"} => outcome = "ok")
              /\ enable_diarization' = en
              /\ hf_token' = tok
              /\ IF ~(en /\ tok)
                 THEN /\ diar_status' = st
                      /\ pc' = "respond"
                      /\ UNCHANGED <<progress, posts, undelivered, all_segments,
                                     resident, peak_resident, response, error_at>>
                 ELSE /\ progress' = Append(progress, [progress |-> 85,
                                                       stage |-> "diarization"])
                      /\ \E cb \in DeliveryOutcomes(callback_url, job_id) :
                            LET sent == SendProgressCallback(callback_url, job_id, cb)
                            IN  /\ Notify(sent)
                                /\ IF sent.escaped
                                   THEN /\ Fail("callback")
                                        /\ UNCHANGED <<all_segments, diar_status,
                                                       peak_resident>>
                                   ELSE /\ peak_resident' =
                                              IF outcome = "load_failed"
                                              THEN peak_resident
                                              ELSE Max(peak_resident,
                                                       Cardinality(resident
                                                           \cup {"diarize"}))
                                        /\ IF r.escaped
                                           THEN /\ Fail("diarize")
                                                /\ UNCHANGED <<all_segments,
                                                               diar_status>>
                                           ELSE /\ all_segments' = r.segments
                                                /\ diar_status' = st
                                                /\ resident' =
                                                      IF outcome = "run_failed"
                                                      THEN resident \cup {"diarize"}
                                                      ELSE resident
                                                /\ pc' = "respond"
                                                /\ UNCHANGED <<response, error_at>>
    /\ UNCHANGED <<srtVars, srvVars, timeVars, segVars, language, detected_language, i, recog, results,
                   align_status, callback_url, job_id, calls>>

\* Lines 899-939: build the response, return it, clean up.
JobRespond ==
    /\ pc = "respond"
    /\ response' = BuildResponse(chunking_strategy, duration, detected_language,
                                 segments, all_segments)
    /\ resident' = {}
    /\ pc' = "done"
    /\ UNCHANGED <<srtVars, srvVars, timeVars, segVars, language, enable_diarization, hf_token,
                   detected_language, i, recog, results, all_segments, progress,
                   align_status, diar_status, error_at, callback_url, job_id,
                   posts, undelivered, calls, peak_resident>>

JobNext ==
    \/ JobSegmentAudio
    \/ JobExtractFails
    \/ JobLoadModel
    \/ JobLoadModelFails
    \/ JobDetectLanguage
    \/ JobSkipDetect
    \/ JobTranscribeChunk
    \/ JobReleaseModel
    \/ JobLoadAudioFails
    \/ JobAlign
    \/ JobDiarize
    \/ JobRespond

JobSpec == JobInit /\ [][JobNext]_vars

(***************************************************************************)
(* CallbackSpec: the same request handler, for requests that may name a    *)
(* progress callback.  Every posted progress request may be answered 200,  *)
(* answered with another status, time out, fail to connect or raise; the   *)
(* audio is cut by the fixed-window builder or not at all.                 *)
(***************************************************************************)
CallbackStrategies == {"none", "time"}

CallbackInit ==
    /\ pc = "start"
    /\ chunking_strategy \in CallbackStrategies
    /\ duration \in JobDurations
    /\ speech_segments = <<>>
    /\ silences = <<>>
    /\ builder = "unset"
    /\ segments = <<>>
    /\ detection = "unset"
    /\ JobUnset
    /\ callback_url \in BOOLEAN
    /\ job_id \in BOOLEAN
    /\ SrtUnset
    /\ SrvUnset
    /\ TimeUnset

CallbackSpec == CallbackInit /\ [][JobNext]_vars

(***************************************************************************)
(* SrtSpec: the subtitle rendering at the end of a request                 *)
(* (srt_content = generate_srt_from_segments(segments),                    *)
(* segment_srt_content = generate_segment_srt(segments)).  The transcript  *)
(* is any list of at most MaxSrtSegments segments holding at most          *)
(* MaxSrtWords words in all; words and segment heads come from small sets  *)
(* that contain a clean cue, times the float format cannot hold exactly,   *)
(* padded, blank and empty texts, and missing starts and ends.             *)
(***************************************************************************)
SrtWords ==
    { [word |-> <<"h", "i">>,      start |-> 0,      end |-> 1500],
      [word |-> <<"a">>,           start |-> 1001,   end |-> 2300],
      [word |-> <<" ", "a", " ">>, start |-> 61500,  end |-> 3723500],
      [word |-> <<>>,              start |-> 0,      end |-> 1500],
      [word |-> <<" ">>,           start |-> 0,      end |-> 1500],
      [word |-> <<"h", "i">>,      start |-> NoTime, end |-> 1500],
      [word |-> <<"h", "i">>,      start |-> 0,      end |-> NoTime] }

SrtHeads ==
    { [text |-> <<" ", "h", "i">>, start |-> 0,      end |-> 2300],
      [text |-> <<>>,              start |-> 0,      end |-> 1500],
      [text |-> <<"h", "i">>,      start |-> NoTime, end |-> 1500] }

\* The number of words in the first j segments, given each segment's count.
RECURSIVE WordsBefore(_, _)
WordsBefore(counts, j) ==
    IF j = 0 THEN 0 ELSE WordsBefore(counts, j - 1) + counts[j]

\* How k words at most can be spread over n segments.
WordCounts(n, k) == {c \in [1..n -> 0..k] : WordsBefore(c, n) <= k}

\* The transcript with the given segment heads whose words are the words of
\* flat, dealt out in order, counts[j] of them to segment j.
Transcript(heads, counts, flat) ==
    [j \in 1..Len(heads) |->
        [text |-> heads[j].text, start |-> heads[j].start, end |-> heads[j].end,
         words |-> SubSeq(flat, WordsBefore(counts, j - 1) + 1,
                          WordsBefore(counts, j))]]

SrtInit ==
    /\ pc = "transcribed"
    /\ \E n \in 0..MaxSrtSegments :
       \E counts \in WordCounts(n, MaxSrtWords) :
       \E heads \in [1..n -> SrtHeads],
          flat \in [1..WordsBefore(counts, n) -> SrtWords] :
          transcript = Transcript(heads, counts, flat)
    /\ srt_content = <<>>
    /\ segment_srt_content = <<>>
    /\ SegUnset
    /\ JobUnset
    /\ NoCallback
    /\ SrvUnset
    /\ TimeUnset

GenerateSubtitles ==
    /\ pc = "transcribed"
    /\ srt_content' = GenerateSrtFromSegments(transcript)
    /\ segment_srt_content' = GenerateSegmentSrt(transcript)
    /\ pc' = "rendered"
    /\ UNCHANGED <<transcript, segVars, jobVars, srvVars, timeVars>>

SrtNext == GenerateSubtitles

SrtSpec == SrtInit /\ [][SrtNext]_vars

(***************************************************************************)
(* SrvSpec: the server receives MaxRequests requests, each to any of the   *)
(* three endpoints, at any time.  uvicorn.run(app) runs one event loop in  *)
(* one process; the handlers are coroutines, so a request runs until it    *)
(* awaits, and another request runs only while it is suspended.  Every     *)
(* engine call may raise.                                                  *)
(***************************************************************************)
SrvInit ==
    /\ pc = "serving"
    /\ SegUnset
    /\ JobUnset
    /\ NoCallback
    /\ SrtUnset
    /\ SrvUnset
    /\ TimeUnset

otherVars == <<pc, segVars, jobVars, srtVars, timeVars>>

\* The request's coroutine moves to another position; the loop keeps it.
Goto(r, position) == rpc' = [rpc EXCEPT ![r] = position]

\* An exception reaches the handler's except clause: HTTP 500 after cleanup.
Raise(r) ==
    /\ rpc' = [rpc EXCEPT ![r] = "cleanup"]
    /\ status' = [status EXCEPT ![r] = 500]

\* The handler starts: it names its temp file, opens it for writing and
\* reaches "content = await file.read()".
SrvReceive(r) ==
    /\ running = 0
    /\ rpc[r] = "idle"
    /\ \E e \in Endpoints, name \in Filenames :
          LET path == IF e = "transcribe" THEN UploadPath(name)
                      ELSE TempPath(now, name)
          IN  /\ endpoint' = [endpoint EXCEPT ![r] = e]
              /\ filename' = [filename EXCEPT ![r] = name]
              /\ temp_file' = [temp_file EXCEPT ![r] = path]
              /\ files' = files \cup {path}
              /\ content' = OpenForWriting(content, path)
              /\ created' = [created EXCEPT ![r] = @ \cup {path}]
              /\ now' = IF e = "transcribe" THEN now ELSE now + 1
    /\ linked' = [linked EXCEPT ![r] = TRUE]
    /\ Goto(r, "reading")
    /\ running' = r
    /\ UNCHANGED <<held, audio_file, nested_file, status, otherVars>>

\* The coroutine awaits and the event loop takes it off.
SrvSuspend(r) ==
    /\ running = r
    /\ Suspendable(rpc[r])
    /\ running' = 0
    /\ UNCHANGED <<endpoint, filename, rpc, held, temp_file, audio_file,
                   nested_file, created, status, files, now, fsVars, otherVars>>

\* The idle event loop resumes a suspended coroutine.
SrvResume(r) ==
    /\ running = 0
    /\ rpc[r] \notin {"idle", "returned", "raised"}
    /\ running' = r
    /\ UNCHANGED <<endpoint, filename, rpc, held, temp_file, audio_file,
                   nested_file, created, status, files, now, fsVars, otherVars>>

\* file.read() returned and the content is written to the temp file.
SrvSave(r) ==
    /\ running = r
    /\ rpc[r] = "reading"
    /\ content' = IF linked[r] THEN WriteFile(content, temp_file[r], r)
                  ELSE content
    /\ Goto(r, "saved")
    /\ UNCHANGED <<endpoint, filename, held, temp_file, audio_file, nested_file,
                   created, status, files, running, now, linked, otherVars>>

\* file.read() raises (the client went away): the handler's except clause.
SrvReadFails(r) ==
    /\ running = r
    /\ rpc[r] = "reading"
    /\ Raise(r)
    /\ UNCHANGED <<endpoint, filename, held, temp_file, audio_file, nested_file,
                   created, files, running, now, fsVars, otherVars>>

\* The request needs its audio extracted: /process-video always,
\* /transcribe-large for an upload with a video suffix.
NeedsExtraction(r) ==
    \/ endpoint[r] = "video"
    \/ endpoint[r] = "large" /\ filename[r].suffix \in VideoSuffixes

\* No extraction: audio_file = temp_file (/transcribe has no audio_file).
SrvSkipExtract(r) ==
    /\ running = r
    /\ rpc[r] = "saved"
    /\ ~NeedsExtraction(r)
    /\ audio_file' = [audio_file EXCEPT ![r] =
                         IF endpoint[r] = "large" THEN temp_file[r] ELSE NoPath]
    /\ Goto(r, "ready")
    /\ UNCHANGED <<endpoint, filename, held, temp_file, nested_file, created,
                   status, files, running, now, fsVars, otherVars>>

\* extract_audio_optimized writes the .wav file next to the upload.
SrvExtract(r) ==
    /\ running = r
    /\ rpc[r] = "saved"
    /\ NeedsExtraction(r)
    /\ audio_file' = [audio_file EXCEPT ![r] = WavPath(temp_file[r])]
    /\ files' = files \cup {WavPath(temp_file[r])}
    /\ content' = WriteFile(content, WavPath(temp_file[r]), r)
    /\ created' = [created EXCEPT ![r] = @ \cup {WavPath(temp_file[r])}]
    /\ Goto(r, IF endpoint[r] = "video" THEN "extracted" ELSE "ready")
    /\ UNCHANGED <<endpoint, filename, held, temp_file, nested_file, status,
                   running, now, linked, otherVars>>

\* extract_audio_optimized raises; ffmpeg may have left a partial output.
SrvExtractFails(r) ==
    /\ running = r
    /\ rpc[r] = "saved"
    /\ NeedsExtraction(r)
    /\ audio_file' = [audio_file EXCEPT ![r] = WavPath(temp_file[r])]
    /\ \E partial \in BOOLEAN :
          /\ files' = IF partial THEN files \cup {WavPath(temp_file[r])} ELSE files
          /\ content' = IF partial
                        THEN WriteFile(content, WavPath(temp_file[r]), r)
                        ELSE content
          /\ created' = [created EXCEPT ![r] =
                            IF partial THEN @ \cup {WavPath(temp_file[r])} ELSE @]
    /\ Raise(r)
    /\ UNCHANGED <<endpoint, filename, held, temp_file, nested_file, running,
                   now, linked, otherVars>>

\* /process-video calls transcribe_large on the extracted audio: the nested
\* call saves its own copy; its await of MockUploadFile.read never suspends.
SrvNestedSave(r) ==
    /\ running = r
    /\ rpc[r] = "extracted"
    /\ nested_file' = [nested_file EXCEPT ![r] = NestedPath(now, audio_file[r])]
    /\ files' = files \cup {NestedPath(now, audio_file[r])}
    /\ content' = WriteFile(content, NestedPath(now, audio_file[r]), r)
    /\ created' = [created EXCEPT ![r] = @ \cup {NestedPath(now, audio_file[r])}]
    /\ now' = now + 1
    /\ Goto(r, "ready")
    /\ UNCHANGED <<endpoint, filename, held, temp_file, audio_file, status,
                   running, linked, otherVars>>

\* whisperx.load_model
SrvLoadModel(r) ==
    /\ running = r
    /\ rpc[r] = "ready"
    /\ held' = [held EXCEPT ![r] = @ \cup {"whisper"}]
    /\ Goto(r, "transcribing")
    /\ UNCHANGED <<endpoint, filename, temp_file, audio_file, nested_file,
                   created, status, files, running, now, fsVars, otherVars>>

\* Probing, segmenting or whisperx.load_model raises.
SrvLoadModelFails(r) ==
    /\ running = r
    /\ rpc[r] = "ready"
    /\ Raise(r)
    /\ UNCHANGED <<endpoint, filename, held, temp_file, audio_file, nested_file,
                   created, files, running, now, fsVars, otherVars>>

\* The audio is loaded and transcribed: del model_obj.  /transcribe loads
\* the audio from temp_file here, which raises when the file is missing.
SrvReleaseModel(r) ==
    /\ running = r
    /\ rpc[r] = "transcribing"
    /\ endpoint[r] = "transcribe" => temp_file[r] \in files
    /\ held' = [held EXCEPT ![r] = @ \ {"whisper"}]
    /\ Goto(r, "aligning")
    /\ UNCHANGED <<endpoint, filename, temp_file, audio_file, nested_file,
                   created, status, files, running, now, fsVars, otherVars>>

\* /transcribe: load_audio or model_obj.transcribe raises with the model held.
SrvTranscribeFails(r) ==
    /\ running = r
    /\ rpc[r] = "transcribing"
    /\ endpoint[r] = "transcribe"
    /\ Raise(r)
    /\ UNCHANGED <<endpoint, filename, held, temp_file, audio_file, nested_file,
                   created, files, running, now, fsVars, otherVars>>

\* /transcribe-large: whisperx.load_audio raises after the model was released.
SrvLoadAudioFails(r) ==
    /\ running = r
    /\ rpc[r] = "aligning"
    /\ endpoint[r] # "transcribe"
    /\ Raise(r)
    /\ UNCHANGED <<endpoint, filename, held, temp_file, audio_file, nested_file,
                   created, files, running, now, fsVars, otherVars>>

\* whisperx.load_align_model, or its failure (logged).
SrvLoadAlign(r) ==
    /\ running = r
    /\ rpc[r] = "aligning"
    /\ \E ok \in BOOLEAN :
          /\ held' = [held EXCEPT ![r] = IF ok THEN @ \cup {"align"} ELSE @]
          /\ Goto(r, IF ok THEN "align_loaded" ELSE "diarizing")
    /\ UNCHANGED <<endpoint, filename, temp_file, audio_file, nested_file,
                   created, status, files, running, now, fsVars, otherVars>>

\* whisperx.align and del model_a, or its failure (logged, model_a is kept).
SrvAlign(r) ==
    /\ running = r
    /\ rpc[r] = "align_loaded"
    /\ \E ok \in BOOLEAN :
          held' = [held EXCEPT ![r] = IF ok THEN @ \ {"align"} ELSE @]
    /\ Goto(r, "diarizing")
    /\ UNCHANGED <<endpoint, filename, temp_file, audio_file, nested_file,
                   created, status, files, running, now, fsVars, otherVars>>

\* Diarization is off or has no token, or DiarizationPipeline raises (logged).
SrvSkipDiarize(r) ==
    /\ running = r
    /\ rpc[r] = "diarizing"
    /\ Goto(r, "cleanup")
    /\ status' = [status EXCEPT ![r] = 200]
    /\ UNCHANGED <<endpoint, filename, held, temp_file, audio_file, nested_file,
                   created, files, running, now, fsVars, otherVars>>

\* whisperx.DiarizationPipeline(...)
SrvLoadDiarize(r) ==
    /\ running = r
    /\ rpc[r] = "diarizing"
    /\ held' = [held EXCEPT ![r] = @ \cup {"diarize"}]
    /\ Goto(r, "diarize_loaded")
    /\ UNCHANGED <<endpoint, filename, temp_file, audio_file, nested_file,
                   created, status, files, running, now, fsVars, otherVars>>

\* The pipeline runs and del diarize_model, or it raises (logged, kept).
SrvDiarize(r) ==
    /\ running = r
    /\ rpc[r] = "diarize_loaded"
    /\ \E ok \in BOOLEAN :
          held' = [held EXCEPT ![r] = IF ok THEN @ \ {"diarize"} ELSE @]
    /\ Goto(r, "cleanup")
    /\ status' = [status EXCEPT ![r] = 200]
    /\ UNCHANGED <<endpoint, filename, temp_file, audio_file, nested_file,
                   created, files, running, now, fsVars, otherVars>>

\* The finally blocks run and the handler returns or raises: its locals,
\* the models among them, are dropped and the loop is free.
SrvFinish(r) ==
    /\ running = r
    /\ rpc[r] = "cleanup"
    /\ LET left == Unlink(endpoint[r], files, temp_file[r], audio_file[r],
                          nested_file[r])
       IN  /\ files' = left
           /\ content' = Remaining(content, left)
           /\ linked' = [q \in Requests |-> linked[q] /\ temp_file[q] \in left]
    /\ held' = [held EXCEPT ![r] = {}]
    /\ Goto(r, IF status[r] = 200 THEN "returned" ELSE "raised")
    /\ running' = 0
    /\ UNCHANGED <<endpoint, filename, temp_file, audio_file, nested_file,
                   created, status, now, otherVars>>

SrvNext ==
    \E r \in Requests :
       \/ SrvReceive(r)
       \/ SrvSuspend(r)
       \/ SrvResume(r)
       \/ SrvSave(r)
       \/ SrvReadFails(r)
       \/ SrvSkipExtract(r)
       \/ SrvExtract(r)
       \/ SrvExtractFails(r)
       \/ SrvNestedSave(r)
       \/ SrvLoadModel(r)
       \/ SrvLoadModelFails(r)
       \/ SrvReleaseModel(r)
       \/ SrvTranscribeFails(r)
       \/ SrvLoadAudioFails(r)
       \/ SrvLoadAlign(r)
       \/ SrvAlign(r)
       \/ SrvSkipDiarize(r)
       \/ SrvLoadDiarize(r)
       \/ SrvDiarize(r)
       \/ SrvFinish(r)

SrvSpec == SrvInit /\ [][SrvNext]_vars

(***************************************************************************)
(* TimeSpec: one call of create_time_based_chunks(audio_path,              *)
(* chunk_duration, overlap), statement by statement, for any probed        *)
(* duration >= 0, chunk_duration > 0 and overlap >= 0 within the bounds.   *)
(* A loop that has appended MaxLoopChunks chunks is not followed further.  *)
(***************************************************************************)
MaxLoopDuration == 8     \* longest file of a create_time_based_chunks call
MaxChunkDuration == 4    \* largest chunk_duration of a call
MaxOverlap == 4          \* largest overlap of a call

\* More chunks than any call with an advancing position appends.
MaxLoopChunks == MaxLoopDuration + 2

TimeInit ==
    /\ pc = "start"
    /\ chunking_strategy = "time"
    /\ duration \in 0..MaxLoopDuration
    /\ speech_segments = <<>>
    /\ silences = <<>>
    /\ builder = "time"
    /\ segments = <<>>
    /\ detection = "unset"
    /\ chunk_duration \in 1..MaxChunkDuration
    /\ overlap \in 0..MaxOverlap
    /\ current_pos = 0
    /\ chunk_id = 0
    /\ JobUnset
    /\ NoCallback
    /\ SrtUnset
    /\ SrvUnset

\* Lines 253-265: the duration is probed; chunks = [], chunk_id = 0,
\* current_pos = 0.
TimeEnter ==
    /\ pc = "start"
    /\ segments' = <<>>
    /\ chunk_id' = 0
    /\ current_pos' = 0
    /\ pc' = "loop"
    /\ UNCHANGED <<chunking_strategy, duration, speech_segments, silences,
                   builder, detection, chunk_duration, overlap, jobVars,
                   srtVars, srvVars>>

\* Lines 259-261: get_video_info raises: the function returns [].
TimeProbeFails ==
    /\ pc = "start"
    /\ segments' = <<>>
    /\ pc' = "returned"
    /\ UNCHANGED <<chunking_strategy, duration, speech_segments, silences,
                   builder, detection, timeVars, jobVars, srtVars, srvVars>>

\* Lines 267-277: one iteration of the while loop.
TimeIterate ==
    /\ pc = "loop"
    /\ current_pos < duration
    /\ Len(segments) < MaxLoopChunks
    /\ LET chunk_start == current_pos
           chunk_end == Min(current_pos + chunk_duration, duration)
       IN  segments' = Append(segments,
                              AudioSegment(chunk_start, chunk_end, chunk_id))
    /\ chunk_id' = chunk_id + 1
    /\ current_pos' = current_pos + (chunk_duration - overlap)
    /\ UNCHANGED <<pc, chunking_strategy, duration, speech_segments, silences,
                   builder, detection, chunk_duration, overlap, jobVars,
                   srtVars, srvVars>>

\* Lines 267 and 279-282: the loop condition is false: return chunks.
TimeReturn ==
    /\ pc = "loop"
    /\ ~(current_pos < duration)
    /\ pc' = "returned"
    /\ UNCHANGED <<segVars, timeVars, jobVars, srtVars, srvVars>>

TimeNext == TimeEnter \/ TimeProbeFails \/ TimeIterate \/ TimeReturn

TimeSpec == TimeInit /\ [][TimeNext]_vars

\* The interpreter keeps running the call: a statement that can run does.
TimeFairSpec == TimeSpec /\ WF_vars(TimeNext)

(***************************************************************************)
(* Properties of the chunk list (SegSpec).                                 *)
(***************************************************************************)
ChunkOverlap(k) == segments[k].end - segments[k + 1].start

Covers(chunks, d) ==
    /\ Len(chunks) >= 1
    /\ chunks[1].start = 0
    /\ chunks[Len(chunks)].end = d
    /\ \A k \in 1..(Len(chunks) - 1) : chunks[k + 1].start <= chunks[k].end

\* C1: whatever the strategy and the detected intervals, the returned chunk
\* list covers [0, duration]: it starts at 0, ends at duration, and leaves no
\* gap between consecutive chunks.
C1_ChunksCoverFile == pc = "done" => Covers(segments, duration)

\* C2: a 45 s file whose only speech interval is [2, 40], cut with target 30 and
\* overlap 10 by create_vad_chunks, gives exactly the chunks [0, 30] and [20, 45].
C2_Scenario45 ==
    (/\ pc = "done"
     /\ chunking_strategy = "vad"
     /\ duration = 45
     /\ speech_segments = << <<2, 40>> >>)
    => segments = <<AudioSegment(0, 30, 0), AudioSegment(20, 45, 1)>>

\* C3: in a chunk list built by create_vad_chunks or create_time_based_chunks,
\* consecutive chunks overlap by exactly the overlap margin, except that the
\* pair ending in the final chunk may overlap by less.
C3_ExactOverlap ==
    (pc = "done" /\ builder \in {"vad", "time"})
    => \A k \in 1..(Len(segments) - 1) :
          IF k + 1 = Len(segments)
          THEN ChunkOverlap(k) <= OverlapDuration
          ELSE ChunkOverlap(k) = OverlapDuration

\* C4: "auto" on a duration below 30 dispatches to no chunking and returns the
\* single chunk 0 = [0, duration]; "auto" on 30 or more dispatches to
\* create_vad_chunks; an explicit none/vad/time/silence is dispatched to that
\* builder whatever the duration.
C4_AutoSelection ==
    pc = "done" =>
      /\ (chunking_strategy = "auto" /\ duration < 30)
           => /\ builder = "none"
              /\ segments = <<AudioSegment(0, duration, 0)>>
      /\ (chunking_strategy = "auto" /\ duration >= 30)
           => /\ builder = "vad"
              /\ segments = CreateVadChunks(speech_segments, duration,
                                            ChunkDuration, OverlapDuration)
      /\ chunking_strategy \in {"none", "vad", "time", "silence"}
           => builder = chunking_strategy
      /\ chunking_strategy = "none" => segments = <<AudioSegment(0, duration, 0)>>
      /\ chunking_strategy = "vad"
           => segments = CreateVadChunks(speech_segments, duration,
                                         ChunkDuration, OverlapDuration)
      /\ chunking_strategy = "time"
           => segments = CreateTimeBasedChunks(duration, ChunkDuration,
                                               OverlapDuration)
      /\ chunking_strategy = "silence"
           => segments = CreateSilenceBasedChunks(silences, duration,
                                                  ChunkDuration * 2)

C4_Witness ==
    /\ pc = "done"
    /\ chunking_strategy = "auto"
    /\ duration = 29
    /\ builder = "none"
    /\ segments = <<AudioSegment(0, 29, 0)>>

(***************************************************************************)
(* Properties of the transcribe_large pipeline (JobSpec).                  *)
(***************************************************************************)
\* What the chunks whose recognition did not raise contribute, in chunk order:
\* each engine segment moved from slice time to file time.
RECURSIVE SurvivingSegments(_, _, _)
SurvivingSegments(chunks, outs, k) ==
    IF k > Len(outs) THEN <<>>
    ELSE (IF outs[k].raised THEN <<>>
          ELSE [j \in 1..Len(outs[k].segments) |->
                   TranscriptSegment(outs[k].segments[j].start + chunks[k].start,
                                     outs[k].segments[j].end + chunks[k].start,
                                     outs[k].segments[j].text)])
         \o SurvivingSegments(chunks, outs, k + 1)

\* C5: whichever chunks the recognition call raises on (chunk 0 during language
\* detection included), the request is not ended by it, every chunk is
\* processed, and the list handed to alignment is the in-order concatenation
\* of the segments of exactly the chunks that did not fail.
C5_ChunkFailureIsolated ==
    /\ error_at # "recognition"
    /\ pc = "align" =>
          /\ Len(recog) = Len(segments)
          /\ all_segments = SurvivingSegments(segments, recog, 1)
    /\ pc = "done" => response.status = 200

C5_Witness ==
    /\ pc = "done"
    /\ language = "none"
    /\ Len(segments) = 3
    /\ recog[1].raised /\ ~recog[2].raised /\ recog[3].raised
    /\ Len(recog[2].segments) = 2
    /\ response.num_segments = 2

\* Some chunk, or a requested stage, failed or was skipped in this run.
SomeFailure ==
    \/ \E k \in 1..Len(recog) : recog[k].raised
    \/ align_status = "failed"
    \/ diar_status \in {"failed", "no_token"}

\* The recognition outcomes in which the engine did not raise.
CleanOutcomes(len, lang) == {o \in RecogOutcomes(len, lang) : ~o.raised}

\* The (language, segments) pairs the chunk loop can end with when no
\* recognition call raises, for the chunks and the pinned language given.
RECURSIVE CleanRuns(_, _, _, _)
CleanRuns(chunks, k, lang, segs) ==
    IF k > Len(chunks) THEN {[language |-> lang, segments |-> segs]}
    ELSE UNION {CleanRuns(chunks, k + 1,
                          GetLanguage(TranscribeAudioSegment(chunks[k], o, lang), "en"),
                          Extend(segs,
                                 TranscribeAudioSegment(chunks[k], o, lang).segments)) :
                  o \in CleanOutcomes(chunks[k].end - chunks[k].start, lang)}

\* The metadata of every response this request can get when all chunks are
\* recognised and alignment and diarization (if enabled) succeed.
CleanRunMetadata ==
    {Metadata(BuildResponse(
         chunking_strategy, duration, run.language, segments,
         DiarizeStage(AlignStage(run.segments, "ok").segments,
                      enable_diarization, TRUE, "ok").segments)) :
       run \in CleanRuns(segments, 1, language, <<>>)}

\* C6: a result produced with a failed chunk or a failed or skipped stage has
\* metadata that no fully successful run of the same request can have.
C6_PartialSuccessVisible ==
    (pc = "done" /\ SomeFailure) => Metadata(response) \notin CleanRunMetadata

\* The segments of the per-chunk results, concatenated in chunk order.
RECURSIVE ConcatResults(_, _)
ConcatResults(rs, k) ==
    IF k > Len(rs) THEN <<>> ELSE rs[k].segments \o ConcatResults(rs, k + 1)

\* C7: a failure of alignment or of diarization never ends the request; after a
\* failed alignment the segment list is the unaligned list, unchanged; after a
\* failed or skipped (no token) diarization the request succeeds and no
\* segment of the result carries a speaker label.
C7_StageFailuresNonFatal ==
    /\ error_at \notin {"align", "diarize"}
    /\ (pc = "diarize" /\ align_status = "failed")
          => all_segments = ConcatResults(results, 1)
    /\ (pc = "done" /\ diar_status \in {"failed", "no_token"})
          => /\ response.status = 200
             /\ \A k \in 1..Len(response.segments) :
                   response.segments[k].speaker = "none"

C7_Witness ==
    /\ pc = "done"
    /\ align_status = "failed"
    /\ diar_status = "failed"
    /\ Len(response.segments) >= 2
    /\ response.segments = ConcatResults(results, 1)

\* C8: the reassembled list (all chunks' segments, offset to file time and
\* concatenated in chunk order) is non-decreasing in start.
C8_StartsMonotonic ==
    pc = "align" =>
       \A k \in 1..(Len(all_segments) - 1) :
          all_segments[k].start <= all_segments[k + 1].start

\* Two segments are near-duplicates: same text, overlapping intervals, both
\* inside the stretch shared by two different chunks.
NearDuplicates(a, b) ==
    /\ a.text = b.text
    /\ a.start < b.end /\ b.start < a.end
    /\ \E m, n \in 1..Len(segments) :
          /\ m < n
          /\ LET lo == Max(segments[m].start, segments[n].start)
                 hi == Min(segments[m].end, segments[n].end)
             IN  /\ lo <= a.start /\ a.end <= hi
                 /\ lo <= b.start /\ b.end <= hi

\* C9: the reassembled list holds no two near-duplicate segments: content that
\* two overlapping chunks both recognised survives exactly once.
C9_NoBoundaryDuplicates ==
    pc = "align" =>
       \A j, k \in 1..Len(all_segments) :
          j < k => ~NearDuplicates(all_segments[j], all_segments[k])

NonOverlapping(chunks) ==
    \A k \in 1..(Len(chunks) - 1) : chunks[k].end <= chunks[k + 1].start

\* Number of segments returned for the first k chunks.
RECURSIVE SegmentsBefore(_, _)
SegmentsBefore(rs, k) ==
    IF k = 0 THEN 0 ELSE SegmentsBefore(rs, k - 1) + Len(rs[k].segments)

\* C10: when the chunks do not overlap, the reassembled list is the per-chunk
\* segment lists one after the other: every segment of every chunk appears
\* once, unchanged, at its place in chunk order, and nothing else appears.
C10_ReassemblyIdentity ==
    (pc = "align" /\ NonOverlapping(segments)) =>
       /\ Len(results) = Len(segments)
       /\ Len(all_segments) = SegmentsBefore(results, Len(results))
       /\ \A k \in 1..Len(results) :
             \A j \in 1..Len(results[k].segments) :
                all_segments[SegmentsBefore(results, k - 1) + j]
                   = results[k].segments[j]

C10_Witness ==
    /\ pc = "align"
    /\ NonOverlapping(segments)
    /\ Len(segments) >= 2
    /\ Len(results[1].segments) = 2
    /\ Len(results[2].segments) = 2
    /\ Len(all_segments) = 4

(***************************************************************************)
(* Subtitle claims (SrtSpec).                                              *)
(***************************************************************************)
RECURSIVE AllWords(_)
AllWords(segs) ==
    IF segs = <<>> THEN <<>> ELSE Head(segs).words \o AllWords(Tail(segs))

EmittableWord(w) ==
    Strip(w.word) # <<>> /\ w.start # NoTime /\ w.end # NoTime

EmittableSegment(sg) ==
    Strip(sg.text) # <<>> /\ sg.start # NoTime /\ sg.end # NoTime

WordCues == SelectSeq(AllWords(transcript), EmittableWord)

SegmentCues == SelectSeq(transcript, EmittableSegment)

\* The text of a subtitle file cut at its newlines ("...".split("\n")).
RECURSIVE SplitLines(_)
SplitLines(s) ==
    LET breaks == {g \in 1..Len(s) : s[g] = NL}
        first  == CHOOSE g \in breaks : \A h \in breaks : g <= h
    IN  IF breaks = {} THEN <<s>>
        ELSE <<SubSeq(s, 1, first - 1)>>
             \o SplitLines(SubSeq(s, first + 1, Len(s)))

\* One cue as the SRT format writes it: index, timing, text, blank line.
CueBlock(idx, start, end, text) ==
    Decimal(idx) \o <<NL>>
    \o FormatTimestampSrt(start) \o Arrow \o FormatTimestampSrt(end) \o <<NL>>
    \o text \o <<NL, NL>>

RECURSIVE WordBlocks(_, _)
WordBlocks(cues, idx) ==
    IF idx > Len(cues) THEN <<>>
    ELSE CueBlock(idx, cues[idx].start, cues[idx].end, Strip(cues[idx].word))
         \o WordBlocks(cues, idx + 1)

RECURSIVE SegmentBlocks(_, _)
SegmentBlocks(cues, idx) ==
    IF idx > Len(cues) THEN <<>>
    ELSE CueBlock(idx, cues[idx].start, cues[idx].end, Strip(cues[idx].text))
         \o SegmentBlocks(cues, idx + 1)

\* C11: both renderers write every cue, the last one included, as exactly
\* "<index>\n<start> --> <end>\n<text>\n\n", indices counting from 1 and
\* timestamps zero-padded HH:MM:SS,mmm.
C11_CueLayout ==
    pc = "rendered" =>
        /\ srt_content = WordBlocks(WordCues, 1)
        /\ segment_srt_content = SegmentBlocks(SegmentCues, 1)

\* C12: the word-level subtitle file holds one cue for every word that has
\* a non-empty stripped text and both a start and an end, in segment order
\* and then word order, skips every other word, and numbers the cues
\* 1..k without gaps.
C12_OneCuePerWord ==
    pc = "rendered" =>
        LET lines == SplitLines(srt_content)
            k     == Len(WordCues)
        IN  /\ Len(lines) = IF k = 0 THEN 1 ELSE 4 * k
            /\ \A j \in 1..k :
                  /\ lines[4 * j - 3] = Decimal(j)
                  /\ lines[4 * j - 2] = FormatTimestampSrt(WordCues[j].start)
                                        \o Arrow
                                        \o FormatTimestampSrt(WordCues[j].end)
                  /\ lines[4 * j - 1] = Strip(WordCues[j].word)

\* A word that is skipped in one segment is followed by a word that is
\* emitted in the next segment.
C12_Witness ==
    /\ pc = "rendered"
    /\ Len(transcript) = 2
    /\ Len(transcript[1].words) = 1
    /\ Len(transcript[2].words) = 1
    /\ ~EmittableWord(transcript[1].words[1])
    /\ EmittableWord(transcript[2].words[1])
    /\ srt_content # <<>>

DigitValue(c) == CHOOSE d \in 0..9 : DigitChars[d + 1] = c

RECURSIVE Number(_)
Number(digits) ==
    IF digits = <<>> THEN 0
    ELSE 10 * Number(SubSeq(digits, 1, Len(digits) - 1))
         + DigitValue(digits[Len(digits)])

\* The fields of a timestamp H..H:MM:SS,mmm read back as numbers.
TimestampFields(ts) ==
    LET n == Len(ts)
    IN  [hours   |-> Number(SubSeq(ts, 1, n - 10)),
         minutes |-> Number(SubSeq(ts, n - 8, n - 7)),
         secs    |-> Number(SubSeq(ts, n - 5, n - 4)),
         millis  |-> Number(SubSeq(ts, n - 2, n))]

ParseTimestamp(ts) ==
    LET f == TimestampFields(ts)
    IN  f.hours * 3600000 + f.minutes * 60000 + f.secs * 1000 + f.millis

\* The (start, end, text) triples a reader gets back from a subtitle file.
ParseSrt(doc) ==
    LET lines == SplitLines(doc)
        k     == Len(lines) \div 4
        timing(j) == lines[4 * j - 2]
        gap(j) == CHOOSE g \in 1..Len(timing(j)) : timing(j)[g] = " "
    IN  [j \in 1..k |->
            [start |-> ParseTimestamp(SubSeq(timing(j), 1, gap(j) - 1)),
             end   |-> ParseTimestamp(SubSeq(timing(j), gap(j) + 5,
                                             Len(timing(j)))),
             word  |-> lines[4 * j - 1]]]

\* C13: for words with non-empty text (no surrounding blanks) and
\* whole-millisecond times, reading
\* the rendered word-level file back gives the same (start, end, text)
\* sequence, and every timestamp has minutes and seconds in 00..59, millis
\* in 000..999 and the value of its time.
C13_RoundTrip ==
    (/\ pc = "rendered"
     /\ \A j \in 1..Len(AllWords(transcript)) :
           /\ AllWords(transcript)[j].word # <<>>
           /\ AllWords(transcript)[j].word = Strip(AllWords(transcript)[j].word)
           /\ AllWords(transcript)[j].start # NoTime
           /\ AllWords(transcript)[j].end # NoTime)
    => /\ ParseSrt(srt_content) = AllWords(transcript)
       /\ \A j \in 1..Len(WordCues) :
             LET f == TimestampFields(FormatTimestampSrt(WordCues[j].start))
             IN  /\ f.minutes \in 0..59
                 /\ f.secs \in 0..59
                 /\ f.millis \in 0..999
                 /\ ParseTimestamp(FormatTimestampSrt(WordCues[j].start))
                        = WordCues[j].start

(***************************************************************************)
(* Claims about progress, callbacks, models in memory, the reported        *)
(* strategy and the language of each recognition call.                     *)
(***************************************************************************)
\* C14: within one request the progress values handed to
\* send_progress_callback never decrease and lie within 0..100, through
\* transcription, alignment and diarization, for any number of chunks and
\* whether the language is pinned or detected.
C14_ProgressMonotonic ==
    /\ \A k \in 1..Len(progress) : progress[k].progress \in 0..100
    /\ \A k \in 1..(Len(progress) - 1) :
          progress[k].progress <= progress[k + 1].progress

C14_Witness ==
    /\ pc = "done"
    /\ language = "none"
    /\ Len(segments) = 3
    /\ Len(progress) = 4
    /\ progress[1].stage = "transcription"
    /\ progress[3].stage = "alignment"
    /\ progress[4].stage = "diarization"

\* The response a request gets from what the engines did, whatever happened
\* to its progress requests.
ExpectedLanguage ==
    IF language # "none" THEN language
    ELSE IF Len(segments) = 0 THEN "none"
    ELSE IF recog[1].raised THEN "en"
    ELSE recog[1].language

ExpectedSegments ==
    LET base    == SurvivingSegments(segments, recog, 1)
        aligned == IF align_status = "ok" THEN AlignSegments(base) ELSE base
    IN  IF diar_status = "ok" THEN AssignWordSpeakers(aligned) ELSE aligned

\* C15: the delivery of progress callbacks never changes the outcome of the
\* request: no request is posted when callback_url or job_id is missing,
\* one is posted per notification otherwise, send_progress_callback lets
\* no exception out whatever the delivery does, and the response and the
\* status are those that the engines' outcomes alone determine.
C15_CallbackNeverChangesOutcome ==
    /\ error_at # "callback"
    /\ posts = IF callback_url /\ job_id THEN Len(progress) ELSE 0
    /\ pc = "failed" => error_at \in {"extract", "load_model", "load_audio"}
    /\ pc = "done" =>
          response = [status |-> 200,
                      duration |-> duration,
                      language |-> ExpectedLanguage,
                      num_segments |-> Len(ExpectedSegments),
                      num_chunks |-> Len(segments),
                      chunking_strategy |-> chunking_strategy,
                      segments |-> ExpectedSegments]

C15_Witness ==
    /\ pc = "done"
    /\ callback_url /\ job_id
    /\ undelivered
    /\ posts = 5
    /\ response.status = 200
    /\ response.num_segments >= 1

\* C17: a request holds at most one model at a time: the recognition model
\* is released before the alignment model is loaded and the alignment
\* model before the diarization model, on every path.
C17_OneModelResident ==
    /\ Cardinality(resident) <= 1
    /\ peak_resident <= 1

\* The builder that produced the chunk list, fall-backs resolved.
ActualBuilder ==
    IF builder = "vad" /\ speech_segments = <<>> THEN "time"
    ELSE IF builder = "silence" /\ silences = <<>> THEN "time"
    ELSE builder

\* C19: the chunking_strategy of the result names the strategy that built
\* the chunks, also for 'auto', for an unknown name and after a fall-back
\* to fixed windows.
C19_ReportedStrategy ==
    pc = "done" => response.chunking_strategy = ActualBuilder

\* C20: every chunk is recognised exactly once, in index order; with no
\* language pinned chunk 0 is recognised with no language and every later
\* chunk with the language chunk 0 reported ("en" when chunk 0 reported
\* none); with a language pinned every chunk is recognised with it.
C20_LanguageDetectedOnce ==
    /\ \A k \in 1..Len(calls) : calls[k].index = k - 1
    /\ Len(calls) <= Len(segments)
    /\ pc \in {"align", "diarize", "respond", "done"}
          => Len(calls) = Len(segments)
    /\ language # "none" =>
          \A k \in 1..Len(calls) : calls[k].language = language
    /\ (language = "none" /\ pc # "load" /\ pc # "start") =>
          \A k \in 1..Len(calls) :
             calls[k].language =
                IF k = 1 THEN "none"
                ELSE IF recog[1].raised THEN "en" ELSE recog[1].language

C20_Witness ==
    /\ pc = "done"
    /\ language = "none"
    /\ Len(calls) = 3
    /\ ~recog[1].raised
    /\ recog[1].language = "de"
    /\ calls[3].language = "de"

(***************************************************************************)
(* Claims about the server (SrvSpec).                                      *)
(***************************************************************************)
\* C16: whatever the interleaving of concurrent requests to /transcribe,
\* /transcribe-large and /process-video, at most one request holds a
\* loaded model at any time: a request loads no model before the request
\* that holds one has released its own.
C16_OneJobHoldsModels ==
    \A r1, r2 \in Requests : r1 # r2 => held[r1] = {} \/ held[r2] = {}

\* A request holds a model while another one has arrived and waits for
\* its upload.
C16_Witness ==
    \E r1, r2 \in Requests :
       /\ r1 # r2
       /\ held[r1] # {}
       /\ rpc[r2] = "reading"
       /\ temp_file[r2] \in files

\* C18: when a /transcribe-large or /process-video request has returned or
\* raised, on whatever path, none of the files it wrote (the saved upload,
\* the extracted audio) exists any more.
C18_TempFilesRemoved ==
    \A r \in Requests :
       (endpoint[r] \in {"large", "video"} /\ rpc[r] \in {"returned", "raised"})
          => created[r] \cap files = {}

\* A /process-video request failed after the audio and the nested upload
\* were written.
C18_Witness ==
    \E r \in Requests :
       /\ endpoint[r] = "video"
       /\ rpc[r] = "raised"
       /\ Cardinality(created[r]) = 3
       /\ created[r] \cap files = {}

(***************************************************************************)
(* Claims about the timestamps of a chunk's result and the notifications   *)
(* of the chunk loop (JobSpec).                                            *)
(***************************************************************************)
\* C21: every segment transcribe_audio_segment returns for a chunk is the
\* engine's segment with the chunk's start added once to its start and to
\* its end, so it starts at or after the start of its chunk.
C21_OffsetByChunkStart ==
    \A k \in 1..Len(results) :
       /\ results[k].start = segments[k].start
       /\ ~results[k].error =>
             /\ Len(results[k].segments) = Len(recog[k].segments)
             /\ \A j \in 1..Len(results[k].segments) :
                   /\ results[k].segments[j].start
                         = recog[k].segments[j].start + segments[k].start
                   /\ results[k].segments[j].end
                         = recog[k].segments[j].end + segments[k].start
                   /\ results[k].segments[j].start >= segments[k].start

\* A later chunk, starting after 0, returned a segment found at 20 s of
\* its slice.
C21_Witness ==
    /\ pc = "done"
    /\ Len(results) >= 2
    /\ segments[2].start > 0
    /\ Len(results[2].segments) >= 1
    /\ recog[2].segments[1].start = 20
    /\ results[2].segments[1].start = 20 + segments[2].start

\* The notifications of the transcription stage issued so far.
TranscriptionProgress ==
    SelectSeq(progress, LAMBDA p : p.stage = "transcription")

\* C22: when the chunk loop has ended, one notification of the transcription
\* stage was issued for each of the n chunks, the k-th of them for chunk
\* index k - 1, each with a progress value within 20..80, whether the
\* language was pinned or detected from chunk 0.
C22_OneNotificationPerChunk ==
    pc \in {"align", "diarize", "respond", "done"} =>
       /\ Len(TranscriptionProgress) = Len(segments)
       /\ \A k \in 1..Len(TranscriptionProgress) :
             /\ TranscriptionProgress[k].progress
                   = SegmentProgress(k - 1, Len(segments))
             /\ TranscriptionProgress[k].progress \in 20..80

(***************************************************************************)
(* Claims about the chunk builders (SegSpec).                              *)
(***************************************************************************)
\* C23: when the speech detection yields no intervals (the VAD model cannot
\* be loaded, the detection raises, or no speech is found),
\* detect_speech_segments returns the empty list without raising, and
\* create_vad_chunks returns the chunk list of create_time_based_chunks for
\* the same target duration and overlap.
C23_EmptyDetectionFallsBack ==
    /\ pc # "raised"
    /\ detection \in {"load_failed", "raised"} => speech_segments = <<>>
    /\ (pc = "done" /\ builder = "vad" /\ speech_segments = <<>>)
          => segments = CreateTimeBasedChunks(duration, ChunkDuration,
                                              OverlapDuration)

\* The detection raised on a 70 s file, which is cut into four windows.
C23_Witness ==
    /\ pc = "done"
    /\ builder = "vad"
    /\ detection = "raised"
    /\ duration = 70
    /\ Len(segments) = 4
    /\ segments[4] = AudioSegment(60, 70, 3)

\* C24: every chunk create_silence_based_chunks returns, the final chunk
\* from the last silence to the end of the file included, is at most
\* 2 * target_duration long.
C24_SilenceChunkBounded ==
    (pc = "done" /\ builder = "silence") =>
       \A k \in 1..Len(segments) :
          segments[k].end - segments[k].start <= 2 * ChunkDuration

\* A time lies strictly inside one of the detected speech intervals.
InsideSpeech(t) ==
    \E s \in 1..Len(speech_segments) :
       speech_segments[s][1] < t /\ t < speech_segments[s][2]

\* C25: when speech intervals were detected, no start or end of a returned
\* chunk, other than 0 and the end of the file, lies strictly inside a
\* detected speech interval.
C25_NoBoundaryInsideSpeech ==
    (pc = "done" /\ speech_segments # <<>>) =>
       \A k \in 1..Len(segments) :
          /\ segments[k].start \notin {0, duration}
                => ~InsideSpeech(segments[k].start)
          /\ segments[k].end \notin {0, duration}
                => ~InsideSpeech(segments[k].end)

\* C26: every chunk create_vad_chunks returns lies within the file: it
\* starts at 0 or later, ends at the end of the file or earlier, and does
\* not end before it starts.
C26_VadChunkWithinFile ==
    (pc = "done" /\ builder = "vad") =>
       \A k \in 1..Len(segments) :
          /\ 0 <= segments[k].start
          /\ segments[k].start <= segments[k].end
          /\ segments[k].end <= duration

\* C27: no chunk create_vad_chunks returns is longer than the target
\* duration plus the overlap added on each side, whatever the speech
\* intervals, a single interval longer than the target included.
C27_VadChunkBounded ==
    (pc = "done" /\ builder = "vad") =>
       \A k \in 1..Len(segments) :
          segments[k].end - segments[k].start
             <= ChunkDuration + 2 * OverlapDuration

(***************************************************************************)
(* Claims about create_time_based_chunks with free parameters (TimeSpec).  *)
(***************************************************************************)
\* C28: every call of create_time_based_chunks with duration >= 0,
\* chunk_duration > 0 and overlap >= 0 returns, and every iteration of its
\* loop moves the position strictly forward, also when
\* overlap >= chunk_duration.
C28_Terminates ==
    /\ <>(pc = "returned")
    /\ [][(pc = "loop" /\ pc' = "loop") => current_pos' > current_pos]_vars

\* C29: in every chunk list create_time_based_chunks returns for
\* 0 <= overlap < chunk_duration the ids are 0..n-1 in list order, the
\* starts increase strictly, the last chunk ends at the end of the file,
\* and every chunk after the first ends strictly later than the chunk
\* before it (no chunk lies wholly inside its predecessor).
C29_TimeChunksOrdered ==
    (pc = "returned" /\ overlap < chunk_duration) =>
       /\ \A k \in 1..Len(segments) : segments[k].segment_id = k - 1
       /\ \A k \in 1..(Len(segments) - 1) :
             segments[k].start < segments[k + 1].start
       /\ Len(segments) > 0 => segments[Len(segments)].end = duration
       /\ \A k \in 1..(Len(segments) - 1) :
             segments[k].end < segments[k + 1].end

(***************************************************************************)
(* Claims about the files of concurrent requests (SrvSpec).                *)
(***************************************************************************)
\* C30: in every interleaving of concurrent /transcribe requests, two
\* uploads with the same filename included, the temp file of a request
\* that has saved its upload and has not yet finished transcribing it
\* exists and holds that request's own upload: no other request has
\* truncated, overwritten or deleted it.
C30_TempFileIsolated ==
    \A r \in Requests :
       (endpoint[r] = "transcribe" /\ rpc[r] \in {"saved", "ready", "transcribing"})
          => /\ temp_file[r] \in files
             /\ content[temp_file[r]] = r

====
